---- MODULE Spec2Model ----
\* Recipe API: the five handlers of /api/recipes in the three variants of the
\* repository (raw SQL: src/unnamed/part_003, Prisma: src/api/index.js,
\* Prisma+Accelerate: src/api/index.mjs) over one table of recipes.
EXTENDS Integers, Sequences, FiniteSets, TLC

\* ------------------------------------------------------------------ bounds
\* Number of well-formed UUIDs the id generator draws from.
MaxIds == 2
\* Number of update requests that may be between their two storage calls.
MaxInflight == 1
\* Number of update requests that run at the same time on disjoint fields.
MaxWriters == 2

Ids == 1..MaxIds
\* A path parameter that is not a well-formed UUID ("nonexistent-id").
BadId == 0
PathIds == Ids \cup {BadId}
Slots == 1..MaxInflight
Writers == 1..MaxWriters
Variants == {"sql", "orm", "acc"}

\* ------------------------------------------------------------------ JS values
\* A JSON value of the request body: t is its typeof, s its text.
Undef == [t |-> "undefined", s |-> <<>>]
Null == [t |-> "null", s |-> <<>>]
Str(s) == [t |-> "string", s |-> s]
Num5 == [t |-> "number", s |-> <<"5">>]
Empty == Str(<<>>)
Blank == Str(<<" ">>)
StrA == Str(<<"a">>)
StrB == Str(<<"b">>)
Padded == Str(<<" ", "c", " ">>)

\* !v is false exactly for truthy v: a non-empty string, a non-zero number.
Truthy(v) ==
  \/ v.t = "string" /\ v.s # <<>>
  \/ v.t = "number" /\ v.s # <<"0">>

\* a || b
Or(a, b) == IF Truthy(a) THEN a ELSE b

IsString(v) == v.t = "string"

RECURSIVE TrimLeft(_)
TrimLeft(s) ==
  IF s = <<>> THEN <<>>
  ELSE IF Head(s) = " " THEN TrimLeft(Tail(s)) ELSE s

RECURSIVE TrimRight(_)
TrimRight(s) ==
  IF s = <<>> THEN <<>>
  ELSE IF s[Len(s)] = " " THEN TrimRight(SubSeq(s, 1, Len(s) - 1)) ELSE s

\* String.prototype.trim
Trim(v) == Str(TrimRight(TrimLeft(v.s)))

\* A query parameter as the driver sends it to a TEXT column: a string as it
\* is, a number as its decimal text, undefined as NULL.
ToText(v) ==
  IF v.t = "string" THEN v
  ELSE IF v.t = "number" THEN Str(v.s)
  ELSE Null

\* ------------------------------------------------------------------ records
Body(t, d, i, s, u) ==
  [title |-> t, description |-> d, ingredients |-> i, steps |-> s, image_url |-> u]

Row(id, t, d, i, s, u) ==
  [id |-> id, title |-> t, description |-> d, ingredients |-> i, steps |-> s,
   image_url |-> u]

NoRec == Row(-1, Undef, Undef, Undef, Undef, Undef)
NoBody == Body(Undef, Undef, Undef, Undef, Undef)

\* The JSON body of a PUT as it arrives: the five fields and, possibly, an id
\* field of its own (NoId: none).
NoId == -1
Raw(b, i) ==
  [id |-> i, title |-> b.title, description |-> b.description,
   ingredients |-> b.ingredients, steps |-> b.steps, image_url |-> b.image_url]

\* const { title, description, ingredients, steps, image_url } = req.body
Destructure(raw) ==
  Body(raw.title, raw.description, raw.ingredients, raw.steps, raw.image_url)

\* An id taken from the body when the body has one.
ParamIdFromBody(pathId, raw) == IF raw.id = NoId THEN pathId ELSE raw.id

\* const id = req.params.id
ParamId(pathId, raw) == pathId

HasId(st, id) == \E r \in st : r.id = id
RowOf(st, id) == CHOOSE r \in st : r.id = id

\* ------------------------------------------------------------------ storage
\* An injected storage failure: the at-th storage call of the request throws
\* an error whose message is msg (possibly empty); at = 0 injects none.
Failures == {"ECONNREFUSED", "ETIMEDOUT", ""}
NoInj == [at |-> 0, msg |-> "ok"]
Inj1 == {NoInj} \cup {[at |-> 1, msg |-> m] : m \in Failures}
Inj2 == Inj1 \cup {[at |-> 2, msg |-> m] : m \in Failures}

\* The id column of the raw-SQL table is of type UUID: comparing it with a
\* text that is no UUID is a query error.
IsUuid(id) == id \in Ids

\* A table without its primary key.
PkViolationOff(st, id) == FALSE

\* id is the primary key: an INSERT of an id the table holds is refused.
PkViolation(st, id) == HasId(st, id)

\* INSERT / prisma.recipe.create.
TblInsert(st, row) == st \cup {row}

\* A write that inserts the row when no row has its id.
TblUpsert(st, row) == {r \in st : r.id # row.id} \cup {row}

\* UPDATE ... WHERE id / prisma.recipe.update: the row with that id, if any,
\* gets the new columns.
TblUpdate(st, row) == {IF r.id = row.id THEN row ELSE r : r \in st}

\* A DELETE without its WHERE.
TblDeleteAll(st, id) == IF HasId(st, id) THEN {} ELSE st

\* DELETE ... WHERE id / prisma.recipe.delete.
TblDelete(st, id) == {r \in st : r.id # id}

\* The orders in which a query without ORDER BY may return the rows.
Orders(st) ==
  {q \in [1..Cardinality(st) -> st] : \A i, j \in 1..Cardinality(st) : q[i] = q[j] => i = j}

\* findMany({orderBy: {id: 'desc'}})
IsDescById(q) == \A i, j \in 1..Len(q) : i < j => q[i].id > q[j].id

\* ------------------------------------------------------------------ responses
Res(st, status, rec, msg, calls, list) ==
  [store |-> st, status |-> status, rec |-> rec, msg |-> msg, calls |-> calls,
   list |-> list]

MsgMissing == "Missing required fields: title, description, ingredients, steps"
MsgStrings == "All fields must be strings"
MsgNotFound == "Recipe not found"
MsgUuid == "invalid input syntax for type uuid"
MsgDuplicate == "duplicate key value violates unique constraint"
MsgTrim == "image_url.trim is not a function"
MsgInvalid == "Invalid value provided"
MsgInternal == "Internal server error"

\* The error field of a 500 answer for a caught error with message m:
\* error.message || 'Internal server error' in index.js, error.message in the
\* other two.
ErrorBody(v, m) == IF v = "orm" /\ m = "" THEN MsgInternal ELSE m

\* A check of the title alone.
MissingRequiredTitleOnly(b) == ~Truthy(b.title)

\* if (!title || !description || !ingredients || !steps)
MissingRequired(b) ==
  ~Truthy(b.title) \/ ~Truthy(b.description) \/ ~Truthy(b.ingredients) \/ ~Truthy(b.steps)

\* typeof title !== 'string' || ... (the four required fields)
NotAllStrings(b) ==
  ~IsString(b.title) \/ ~IsString(b.description) \/ ~IsString(b.ingredients)
    \/ ~IsString(b.steps)

\* Prisma's check of a data object against the String columns of the model:
\* every value given is a string (undefined means the field is not given).
PrismaValid(d, needAll) ==
  \A f \in {"title", "description", "ingredients", "steps", "image_url"} :
    \/ IsString(d[f])
    \/ d[f] = Undef /\ ~needAll

\* ------------------------------------------------------------------ list
\* A list query that answers with one row at most.
ListOrdersPaged(v, st) ==
  {<<>>} \cup {<<r>> : r \in st}

\* The row orders the list query of a variant may answer with.
ListOrders(v, st) ==
  IF v = "orm" THEN {q \in Orders(st) : IsDescById(q)} ELSE Orders(st)

ListH(v, st, order, inj) ==
  IF inj.at = 1 THEN Res(st, 500, NoRec, inj.msg, 1, <<>>)
  ELSE Res(st, 200, NoRec, "", 1, order)

\* ------------------------------------------------------------------ getById
GetH(v, st, id, inj) ==
  IF inj.at = 1 THEN Res(st, 500, NoRec, inj.msg, 1, <<>>)
  ELSE IF v = "sql" /\ ~IsUuid(id) THEN Res(st, 500, NoRec, MsgUuid, 1, <<>>)
  ELSE IF ~HasId(st, id) THEN Res(st, 404, NoRec, MsgNotFound, 1, <<>>)
  ELSE Res(st, 200, RowOf(st, id), "", 1, <<>>)

\* ------------------------------------------------------------------ create
\* The answer built from image_url as received, without its default.
SqlCreatedRaw(id, b) ==
  Row(id, b.title, b.description, b.ingredients, b.steps, b.image_url)

\* The record the raw-SQL handler answers with: its own variables, not a row
\* read back from the table.
SqlCreated(id, b) ==
  Row(id, b.title, b.description, b.ingredients, b.steps, Or(b.image_url, Empty))

\* The VALUES of the INSERT as the table stores them.
SqlStored(r) ==
  Row(r.id, ToText(r.title), ToText(r.description), ToText(r.ingredients),
      ToText(r.steps), ToText(r.image_url))

\* A create that stores and answers image_url as received.
SqlCreateHNoDefault(st, b, nid, inj) ==
  IF MissingRequired(b) THEN Res(st, 400, NoRec, MsgMissing, 0, <<>>)
  ELSE IF inj.at = 1 THEN Res(st, 500, NoRec, inj.msg, 1, <<>>)
  ELSE IF PkViolation(st, nid) THEN Res(st, 500, NoRec, MsgDuplicate, 1, <<>>)
  ELSE Res(TblInsert(st, SqlStored(SqlCreatedRaw(nid, b))), 201, SqlCreatedRaw(nid, b), "",
           1, <<>>)

SqlCreateH(st, b, nid, inj) ==
  IF MissingRequired(b) THEN Res(st, 400, NoRec, MsgMissing, 0, <<>>)
  ELSE IF inj.at = 1 THEN Res(st, 500, NoRec, inj.msg, 1, <<>>)
  ELSE IF PkViolation(st, nid) THEN Res(st, 500, NoRec, MsgDuplicate, 1, <<>>)
  ELSE Res(TblInsert(st, SqlStored(SqlCreated(nid, b))), 201, SqlCreated(nid, b), "", 1, <<>>)

\* prisma.recipe.create: the data checked, then the row inserted under a
\* generated id and returned.
PrismaCreate(st, d, nid, inj) ==
  IF ~PrismaValid(d, TRUE) THEN Res(st, 500, NoRec, MsgInvalid, 0, <<>>)
  ELSE IF inj.at = 1 THEN Res(st, 500, NoRec, inj.msg, 1, <<>>)
  ELSE IF PkViolation(st, nid) THEN Res(st, 500, NoRec, MsgDuplicate, 1, <<>>)
  ELSE LET row == Row(nid, d.title, d.description, d.ingredients, d.steps, d.image_url)
       IN Res(TblInsert(st, row), 201, row, "", 1, <<>>)

OrmCreateH(st, b, nid, inj) ==
  IF MissingRequired(b) THEN Res(st, 400, NoRec, MsgMissing, 0, <<>>)
  ELSE IF NotAllStrings(b) THEN Res(st, 400, NoRec, MsgStrings, 0, <<>>)
  ELSE IF Truthy(b.image_url) /\ ~IsString(b.image_url)
    THEN Res(st, 500, NoRec, MsgTrim, 0, <<>>)
  ELSE PrismaCreate(st,
         Body(Trim(b.title), Trim(b.description), Trim(b.ingredients), Trim(b.steps),
              IF Truthy(b.image_url) THEN Trim(b.image_url) ELSE Empty),
         nid, inj)

AccCreateH(st, b, nid, inj) ==
  IF MissingRequired(b) THEN Res(st, 400, NoRec, MsgMissing, 0, <<>>)
  ELSE PrismaCreate(st,
         Body(b.title, b.description, b.ingredients, b.steps, Or(b.image_url, Empty)),
         nid, inj)

CreateH(v, st, b, nid, inj) ==
  IF v = "sql" THEN SqlCreateH(st, b, nid, inj)
  ELSE IF v = "orm" THEN OrmCreateH(st, b, nid, inj)
  ELSE AccCreateH(st, b, nid, inj)

\* ------------------------------------------------------------------ delete
\* A delete that does not read the number of rows it removed.
SqlDeleteHNoCount(st, id, inj) ==
  IF inj.at = 1 THEN Res(st, 500, NoRec, inj.msg, 1, <<>>)
  ELSE IF ~IsUuid(id) THEN Res(st, 500, NoRec, MsgUuid, 1, <<>>)
  ELSE Res(TblDelete(st, id), 204, NoRec, "", 1, <<>>)

SqlDeleteH(st, id, inj) ==
  IF inj.at = 1 THEN Res(st, 500, NoRec, inj.msg, 1, <<>>)
  ELSE IF ~IsUuid(id) THEN Res(st, 500, NoRec, MsgUuid, 1, <<>>)
  ELSE IF Cardinality(st) - Cardinality(TblDelete(st, id)) = 0
    THEN Res(st, 404, NoRec, MsgNotFound, 1, <<>>)
  ELSE Res(TblDelete(st, id), 204, NoRec, "", 1, <<>>)

\* prisma.recipe.delete throws P2025 when no row has the id.
PrismaDeleteH(st, id, inj) ==
  IF inj.at = 1 THEN Res(st, 500, NoRec, inj.msg, 1, <<>>)
  ELSE IF ~HasId(st, id) THEN Res(st, 404, NoRec, MsgNotFound, 1, <<>>)
  ELSE Res(TblDelete(st, id), 204, NoRec, "", 1, <<>>)

DeleteH(v, st, id, inj) ==
  IF v = "sql" THEN SqlDeleteH(st, id, inj) ELSE PrismaDeleteH(st, id, inj)

\* ------------------------------------------------------------------ update
\* The part of an update handler up to its first storage answer. done: the
\* request is answered (res); otherwise the handler goes on to its write with
\* the row it read (current) after `calls` storage calls.
Checked(done, res, current, calls) ==
  [done |-> done, res |-> res, current |-> current, calls |-> calls]

SqlUpdateCheck(st, id, b, inj) ==
  IF inj.at = 1 THEN Checked(TRUE, Res(st, 500, NoRec, inj.msg, 1, <<>>), NoRec, 1)
  ELSE IF ~IsUuid(id) THEN Checked(TRUE, Res(st, 500, NoRec, MsgUuid, 1, <<>>), NoRec, 1)
  ELSE IF ~HasId(st, id)
    THEN Checked(TRUE, Res(st, 404, NoRec, MsgNotFound, 1, <<>>), NoRec, 1)
  ELSE Checked(FALSE, Res(st, 0, NoRec, "", 1, <<>>), RowOf(st, id), 1)

OrmUpdateCheck(st, id, b, inj) ==
  IF MissingRequired(b)
    THEN Checked(TRUE, Res(st, 400, NoRec, MsgMissing, 0, <<>>), NoRec, 0)
  ELSE IF inj.at = 1 THEN Checked(TRUE, Res(st, 500, NoRec, inj.msg, 1, <<>>), NoRec, 1)
  ELSE IF ~HasId(st, id)
    THEN Checked(TRUE, Res(st, 404, NoRec, MsgNotFound, 1, <<>>), NoRec, 1)
  ELSE Checked(FALSE, Res(st, 0, NoRec, "", 1, <<>>), RowOf(st, id), 1)

\* The Accelerate variant reads nothing before its write.
AccUpdateCheck(st, id, b, inj) ==
  Checked(FALSE, Res(st, 0, NoRec, "", 0, <<>>), NoRec, 0)

UpdateCheckH(v, st, id, b, inj) ==
  IF v = "sql" THEN SqlUpdateCheck(st, id, b, inj)
  ELSE IF v = "orm" THEN OrmUpdateCheck(st, id, b, inj)
  ELSE AccUpdateCheck(st, id, b, inj)

\* A merge that falls back to the neighbouring column for title and
\* description.
SqlMergedCrossed(id, b, current) ==
  Row(id, Or(b.title, current.description), Or(b.description, current.title),
      Or(b.ingredients, current.ingredients), Or(b.steps, current.steps),
      Or(b.image_url, current.image_url))

\* const newTitle = title || current.title; ... (the answer of the handler)
SqlMerged(id, b, current) ==
  Row(id, Or(b.title, current.title), Or(b.description, current.description),
      Or(b.ingredients, current.ingredients), Or(b.steps, current.steps),
      Or(b.image_url, current.image_url))

\* A write that is issued once more when it has failed.
SqlUpdateWriteRetry(st, id, b, current, inj, calls) ==
  Res(TblUpdate(st, SqlStored(SqlMerged(id, b, current))), 200,
      SqlMerged(id, b, current), "", IF inj.at = calls + 1 THEN calls + 2 ELSE calls + 1,
      <<>>)

\* UPDATE recipes SET ... WHERE id: the number of rows affected is not read.
SqlUpdateWrite(st, id, b, current, inj, calls) ==
  IF inj.at = calls + 1 THEN Res(st, 500, NoRec, inj.msg, calls + 1, <<>>)
  ELSE Res(TblUpdate(st, SqlStored(SqlMerged(id, b, current))), 200,
           SqlMerged(id, b, current), "", calls + 1, <<>>)

\* prisma.recipe.update({where: {id}, data}): the data checked; P2025 when no
\* row has the id; a field whose value is undefined keeps its column.
PrismaUpdate(st, id, d, inj, calls) ==
  IF ~PrismaValid(d, FALSE) THEN Res(st, 500, NoRec, MsgInvalid, calls, <<>>)
  ELSE IF inj.at = calls + 1 THEN Res(st, 500, NoRec, inj.msg, calls + 1, <<>>)
  ELSE IF ~HasId(st, id) THEN Res(st, 404, NoRec, MsgNotFound, calls + 1, <<>>)
  ELSE LET old == RowOf(st, id)
           Set(f) == IF d[f] = Undef THEN old[f] ELSE d[f]
           row == Row(id, Set("title"), Set("description"), Set("ingredients"),
                      Set("steps"), Set("image_url"))
       IN Res(TblUpdate(st, row), 200, row, "", calls + 1, <<>>)

\* image_url: image_url || existingRecipe.image_url || ''
OrmUpdateData(b, current) ==
  Body(b.title, b.description, b.ingredients, b.steps,
       Or(Or(b.image_url, current.image_url), Empty))

UpdateWriteH(v, st, id, b, current, inj, calls) ==
  IF v = "sql" THEN SqlUpdateWrite(st, id, b, current, inj, calls)
  ELSE IF v = "orm" THEN PrismaUpdate(st, id, OrmUpdateData(b, current), inj, calls)
  ELSE PrismaUpdate(st, id, b, inj, calls)

\* An update handler run from its request to its answer with no other request
\* in between.
UpdateH(v, st, id, b, inj) ==
  LET c == UpdateCheckH(v, st, id, b, inj)
  IN IF c.done THEN c.res ELSE UpdateWriteH(v, st, id, b, c.current, inj, c.calls)

\* ------------------------------------------------------------------ state
VARIABLES
  variant,   \* which of the three implementations is deployed
  store,     \* the recipes table: a set of rows
  last,      \* the request answered last, with its answer
  inflight,  \* per slot, an update request between its lookup and its write
  ended,     \* the run has made its closing request
  born       \* the ids of the stored rows in the order of their creation
             \* (followed by SpecOrder alone)

vars == <<variant, store, last, inflight, ended, born>>

Idle == [pc |-> "idle"]

Answer(op, id, b, inj, h) ==
  [op |-> op, id |-> id, body |-> b, inj |-> inj, status |-> h.status, rec |-> h.rec,
   msg |-> IF h.status = 500 THEN ErrorBody(variant, h.msg) ELSE h.msg,
   calls |-> h.calls, list |-> h.list]

NoAnswer ==
  [op |-> "none", id |-> BadId, body |-> NoBody, inj |-> NoInj, status |-> 0,
   rec |-> NoRec, msg |-> "", calls |-> 0, list |-> <<>>]

Init ==
  /\ variant \in Variants
  /\ store = {}
  /\ last = NoAnswer
  /\ inflight = [s \in Slots |-> Idle]
  /\ ended = FALSE
  /\ born = <<>>

\* GET /api/recipes
List(order, inj) ==
  /\ order \in ListOrders(variant, store)
  /\ LET h == ListH(variant, store, order, inj)
     IN /\ store' = h.store
        /\ last' = Answer("list", BadId, NoBody, inj, h)
  /\ UNCHANGED <<variant, inflight>>

\* GET /api/recipes/:id
Get(id, inj) ==
  /\ LET h == GetH(variant, store, id, inj)
     IN /\ store' = h.store
        /\ last' = Answer("get", id, NoBody, inj, h)
  /\ UNCHANGED <<variant, inflight>>

\* POST /api/recipes; nid is the UUID the generator draws once the body has
\* passed validation.
Create(b, nid, inj) ==
  /\ LET h == CreateH(variant, store, b, nid, inj)
     IN /\ store' = h.store
        /\ last' = Answer("create", IF h.calls = 0 THEN BadId ELSE nid, b, inj, h)
  /\ UNCHANGED <<variant, inflight>>

\* PUT /api/recipes/:id, with no other request between its storage calls.
Update(id, raw, inj) ==
  /\ LET h == UpdateH(variant, store, ParamId(id, raw), Destructure(raw), inj)
     IN /\ store' = h.store
        /\ last' = Answer("update", id, raw, inj, h)
  /\ UNCHANGED <<variant, inflight>>

\* DELETE /api/recipes/:id
Delete(id, inj) ==
  /\ LET h == DeleteH(variant, store, id, inj)
     IN /\ store' = h.store
        /\ last' = Answer("delete", id, NoBody, inj, h)
  /\ UNCHANGED <<variant, inflight>>

\* ------------------------------------------------------------------ inputs
Required == {"title", "description", "ingredients", "steps"}
Fields == Required \cup {"image_url"}

Full(v) == Body(v, v, v, v, v)

\* Every body whose fields are each absent or v.
Masks(v) == {Body(t, d, i, s, u) : t, d, i, s, u \in {Undef, v}}

\* The full body with one field empty, whitespace only, padded with
\* whitespace, or a number.
Odd(v) == {[Full(v) EXCEPT ![f] = x] : f \in Fields, x \in {Empty, Blank, Padded, Num5}}

\* A run is a history of writes that build the table, closed by one request
\* of any kind. The history draws from few inputs: the bodies of POST with
\* and without image_url, the bodies of PUT with every field and with the
\* title alone, the ids of the generator, no storage failure. The closing
\* request (closing = TRUE) draws from all of them: a read or a write, the
\* combinations of absent and present fields, a field that is empty, blank,
\* padded or no string, a path id that is no UUID, a body with an id of its
\* own, a storage call that fails.
HistoryCreateBodies == {Full(StrA), Body(StrA, StrA, StrA, StrA, Undef)}
ClosingCreateBodies == Masks(StrA) \cup Odd(StrA)
CreateBodies(closing) == IF closing THEN ClosingCreateBodies ELSE HistoryCreateBodies

\* The bodies of PUT take description, ingredients and steps together, which
\* every handler treats alike: each of title, these three and image_url is
\* absent or v.
UpdateMasks(v) == {Body(t, d, d, d, u) : t, d, u \in {Undef, v}}

\* The full body with title, description or image_url empty, whitespace
\* only, padded with whitespace, or a number.
UpdateOdd(v) ==
  {[Full(v) EXCEPT ![f] = x] :
     f \in {"title", "description", "image_url"}, x \in {Empty, Blank, Padded, Num5}}

HistoryUpdateBodies == {Full(StrB), Body(StrB, Undef, Undef, Undef, Undef)}
ClosingUpdateBodies == UpdateMasks(StrB) \cup UpdateOdd(StrB)
UpdateBodies(closing) == IF closing THEN ClosingUpdateBodies ELSE HistoryUpdateBodies

ReqIds(closing) == IF closing THEN PathIds ELSE Ids

\* The storage failures a request may meet, out of those its storage calls
\* allow.
Injs(closing, all) == IF closing THEN all ELSE {NoInj}

\* The bodies of the requests that meet an injected storage failure.
FailBodies == {Full(StrA), Full(StrB)}

\* The UUIDs a POST may draw: none when the body is answered before any
\* storage call, as the id is generated after validation.
NewIds(v, b) ==
  IF CreateH(v, {}, b, BadId, NoInj).calls = 0 THEN {BadId} ELSE Ids

\* The id field a PUT body may carry, and the bodies that carry one.
BodyIds(closing) == IF closing THEN Ids \cup {NoId} ELSE {NoId}
IdBodies == {Full(StrB), Body(StrB, Undef, Undef, Undef, Undef)}

\* The creation order after a step that leaves the table st: the ids of the
\* rows removed are dropped, the id of a row added comes last.
Track(b, st) ==
  LET Kept(i) == HasId(st, i)
      kept == SelectSeq(b, Kept)
      added == {r.id : r \in st} \ {kept[k] : k \in 1..Len(kept)}
  IN IF added = {} THEN kept ELSE Append(kept, CHOOSE i \in added : TRUE)

\* One more request of the run; the closing one ends it.
Run(closing) == ended' = closing /\ born' = born

\* One more request of a run that follows the creation order.
RunTracked == ended' = FALSE /\ born' = Track(born, store')

\* ------------------------------------------------------------------ requests one at a time
Next ==
  \/ /\ ~ended
     /\ \E inj \in Inj1 : \E order \in ListOrders(variant, store) :
          List(order, inj) /\ Run(TRUE)
  \/ /\ ~ended
     /\ \E id \in PathIds, inj \in Inj1 : Get(id, inj) /\ Run(TRUE)
  \/ /\ ~ended
     /\ \E c \in BOOLEAN :
          \E b \in CreateBodies(c), inj \in Injs(c, Inj1) :
            /\ inj # NoInj => b \in FailBodies
            /\ \E nid \in NewIds(variant, b) : Create(b, nid, inj)
            /\ Run(c)
  \/ /\ ~ended
     /\ \E c \in BOOLEAN :
          \E id \in ReqIds(c), b \in UpdateBodies(c), i \in BodyIds(c), inj \in Injs(c, Inj2) :
            /\ inj # NoInj => b \in FailBodies /\ id \in Ids
            /\ i # NoId => b \in IdBodies /\ id \in Ids /\ inj = NoInj
            /\ id = BadId => b \in IdBodies
            /\ Update(id, Raw(b, i), inj)
            /\ Run(c)
  \/ /\ ~ended
     /\ \E c \in BOOLEAN :
          \E id \in ReqIds(c), inj \in Injs(c, Inj1) : Delete(id, inj) /\ Run(c)

Spec == Init /\ [][Next]_vars

\* ------------------------------------------------------------------ interleaved updates
\* The bodies of the requests that run interleaved: they pass the validation
\* of every variant.
RaceCreateBodies == {Full(StrA)}
RaceUpdateBodies == {Full(StrB)}

\* PUT /api/recipes/:id up to its first await: the request is answered, or
\* the handler is left before its write.
UpdateBegin(s, id, raw) ==
  /\ inflight[s].pc = "idle"
  /\ LET c == UpdateCheckH(variant, store, ParamId(id, raw), Destructure(raw), NoInj)
     IN IF c.done
        THEN /\ last' = Answer("update", id, raw, NoInj, c.res)
             /\ inflight' = inflight
        ELSE /\ last' = last
             /\ inflight' = [inflight EXCEPT ![s] =
                  [pc |-> "write", id |-> ParamId(id, raw), raw |-> raw,
                   body |-> Destructure(raw), current |-> c.current, calls |-> c.calls]]
  /\ UNCHANGED <<variant, store>>

\* PUT /api/recipes/:id from its write on.
UpdateEnd(s) ==
  /\ inflight[s].pc = "write"
  /\ LET f == inflight[s]
         h == UpdateWriteH(variant, store, f.id, f.body, f.current, NoInj, f.calls)
     IN /\ store' = h.store
        /\ last' = Answer("update", f.id, f.raw, NoInj, h)
  /\ inflight' = [inflight EXCEPT ![s] = Idle]
  /\ UNCHANGED variant

NextRace ==
  \/ \E s \in Slots, id \in Ids, b \in RaceUpdateBodies :
       UpdateBegin(s, id, Raw(b, NoId)) /\ Run(FALSE)
  \/ \E s \in Slots : UpdateEnd(s) /\ Run(FALSE)
  \/ \E b \in RaceCreateBodies, nid \in Ids : Create(b, nid, NoInj) /\ Run(FALSE)
  \/ \E id \in Ids : Delete(id, NoInj) /\ Run(FALSE)
  \/ \E id \in Ids : Get(id, NoInj) /\ Run(FALSE)

SpecRace == Init /\ [][NextRace]_vars

\* ------------------------------------------------------------------ updates of disjoint fields
\* The bodies of the updates that run at the same time: the title alone, the
\* image_url alone.
DisjointUpdateBodies ==
  {Body(StrB, Undef, Undef, Undef, Undef), Body(Undef, Undef, Undef, Undef, StrB)}

InitWriters ==
  /\ variant \in Variants
  /\ store = {}
  /\ last = NoAnswer
  /\ inflight = [s \in Writers |-> Idle]
  /\ ended = FALSE
  /\ born = <<>>

NextWriters ==
  \/ \E s \in Writers, id \in Ids, b \in DisjointUpdateBodies :
       UpdateBegin(s, id, Raw(b, NoId)) /\ Run(FALSE)
  \/ \E s \in Writers : UpdateEnd(s) /\ Run(FALSE)
  \/ \E b \in RaceCreateBodies, nid \in Ids : Create(b, nid, NoInj) /\ Run(FALSE)

SpecWriters == InitWriters /\ [][NextWriters]_vars

\* ------------------------------------------------------------------ creation order
\* Creates, deletes and lists, with the order in which the stored rows were
\* created.
NextOrder ==
  \/ \E b \in HistoryCreateBodies, nid \in Ids : Create(b, nid, NoInj) /\ RunTracked
  \/ \E id \in Ids : Delete(id, NoInj) /\ RunTracked
  \/ \E order \in ListOrders(variant, store) : List(order, NoInj) /\ RunTracked

SpecOrder == Init /\ [][NextOrder]_vars

\* ------------------------------------------------------------------ claims
\* Every field of the body is absent or a string.
StringOrAbsent(b) == \A f \in Fields : b[f] = Undef \/ IsString(b[f])

\* The row a partial update is to leave: a field that is present and
\* non-empty replaces the column, any other field keeps it.
PartialMerge(old, b) ==
  LET New(f) == IF IsString(b[f]) /\ b[f].s # <<>> THEN b[f] ELSE old[f]
  IN Row(old.id, New("title"), New("description"), New("ingredients"), New("steps"),
         New("image_url"))

\* C1: an update of an existing id whose body fields are each absent, empty or
\* a non-empty string answers 200, overwrites exactly the fields that are
\* present and non-empty, keeps the others, and returns the stored row, in
\* every variant.
C1_PartialUpdate ==
  [][LET r == last'
     IN (r.op = "update" /\ r.inj = NoInj /\ HasId(store, r.id) /\ StringOrAbsent(r.body))
          => /\ r.status = 200
             /\ HasId(store', r.id)
             /\ RowOf(store', r.id) = PartialMerge(RowOf(store, r.id), r.body)
             /\ r.rec = RowOf(store', r.id)]_vars

\* C2: in every reachable state every stored recipe has a non-empty string as
\* its title, description, ingredients and steps.
C2_RequiredNonEmpty ==
  \A r \in store : \A f \in Required : IsString(r[f]) /\ r[f].s # <<>>

\* C3: an update whose lookup found the row and whose write finds it deleted
\* by a request in between answers 404, and no row with that id exists then.
C3_RaceNotFound ==
  [][\A s \in Slots :
       (/\ inflight[s].pc = "write"
        /\ inflight'[s].pc = "idle"
        /\ inflight[s].current # NoRec
        /\ ~HasId(store, inflight[s].id))
         => /\ last'.op = "update"
            /\ last'.status = 404
            /\ ~HasId(store', inflight[s].id)]_vars

\* A required field of the body is missing or the empty string.
MissingOrEmpty(b) == \E f \in Required : b[f] = Undef \/ b[f] = Empty

\* C4: a create whose body lacks a required field, or has it empty, is
\* answered 400 before any storage call, and the table is unchanged.
C4_CreateValidation ==
  [][LET r == last'
     IN (r.op = "create" /\ MissingOrEmpty(r.body))
          => r.status = 400 /\ r.calls = 0 /\ store' = store]_vars

\* A rejected create has been answered while the table holds a row.
C4_Witness ==
  /\ last.op = "create"
  /\ MissingOrEmpty(last.body)
  /\ last.status = 400
  /\ store # {}

\* A field of the body is present and is no string.
WrongShape(b) == \E f \in Fields : b[f] # Undef /\ ~IsString(b[f])

\* C5: a create with a field that is present but no string is answered 400,
\* never 500, without a storage call, and nothing is stored.
C5_WrongShapeRejected ==
  [][LET r == last'
     IN (r.op = "create" /\ WrongShape(r.body))
          => r.status = 400 /\ r.calls = 0 /\ store' = store]_vars

\* C6: no two stored recipes share an id; a successful create returns an id no
\* stored recipe had and adds exactly its row, also when the same input was
\* created before; a list holds every stored recipe.
C6_UniqueIds ==
  [][/\ \A x, y \in store' : x.id = y.id => x = y
     /\ (last'.op = "create" /\ last'.status = 201)
          => /\ ~HasId(store, last'.rec.id)
             /\ HasId(store', last'.rec.id)
             /\ store \subseteq store'
             /\ Cardinality(store') = Cardinality(store) + 1
     /\ (last'.op = "list" /\ last'.status = 200)
          => \A x \in store' : \E i \in 1..Len(last'.list) : last'.list[i] = x]_vars

SameContent(x, y) == \A f \in Fields : x[f] = y[f]

\* The second of two creates with the same input has answered 201: the table
\* holds two rows that differ in their id alone.
C6_Witness ==
  /\ last.op = "create"
  /\ last.status = 201
  /\ \E x, y \in store : x.id # y.id /\ SameContent(x, y) /\ y.id = last.rec.id

\* The four required fields are non-empty strings and image_url is absent or a
\* string.
ValidCreate(b) ==
  /\ \A f \in Required : IsString(b[f]) /\ b[f].s # <<>>
  /\ b.image_url = Undef \/ IsString(b.image_url)

\* C7: right after a successful create of a valid input, getById of the
\* returned id answers 200 with a record equal to the created one in every
\* field.
C7_CreateGetRoundTrip ==
  (last.op = "create" /\ last.status = 201 /\ ValidCreate(last.body))
    => LET g == GetH(variant, store, last.rec.id, NoInj)
       IN g.status = 200 /\ g.rec = last.rec

\* A valid input without image_url has been created.
C7_Witness ==
  /\ last.op = "create"
  /\ last.status = 201
  /\ ValidCreate(last.body)
  /\ last.body.image_url = Undef

\* C8: a delete of an existing id removes its row and answers 204 with no
\* content; the same delete again answers 404 and leaves the table as the
\* first left it.
C8_DeleteTwice ==
  [][LET r == last'
     IN (r.op = "delete" /\ r.inj = NoInj /\ HasId(store, r.id))
          => /\ r.status = 204
             /\ r.rec = NoRec
             /\ store' = store \ {RowOf(store, r.id)}
             /\ LET d == DeleteH(variant, store', r.id, NoInj)
                IN d.status = 404 /\ d.store = store']_vars

\* A delete has removed one of two rows.
C8_Witness ==
  /\ last.op = "delete"
  /\ last.status = 204
  /\ last.id \in Ids
  /\ ~HasId(store, last.id)
  /\ store # {}

\* C9: a successful delete leaves no row with the id and getById of it
\* answers 404; a getById of an id without a row answers 404; and a row with
\* an id that has none appears only by a successful create, never by an
\* update or a delete, also when an update's write follows the delete.
C9_DeletePermanent ==
  [][\A id \in Ids :
       /\ (last'.op = "delete" /\ last'.id = id /\ last'.status = 204)
            => ~HasId(store', id) /\ GetH(variant, store', id, NoInj).status = 404
       /\ (last'.op = "get" /\ last'.id = id /\ ~HasId(store, id))
            => last'.status = 404
       /\ (~HasId(store, id) /\ HasId(store', id))
            => last'.op = "create" /\ last'.status = 201 /\ last'.rec.id = id]_vars

\* An update that found its row has written after the row was deleted.
C9_Witness ==
  /\ last.op = "update"
  /\ last.calls = 2
  /\ last.id \in Ids
  /\ ~HasId(store, last.id)

\* C10: an update of an id that names no row answers 404, creates no row and
\* changes none, whatever the id and the body.
C10_UpdateMissing ==
  [][LET r == last'
     IN (r.op = "update" /\ r.inj = NoInj /\ ~HasId(store, r.id))
          => r.status = 404 /\ store' = store]_vars

\* C11: an update of an existing id, repeated at once with the same body,
\* answers as the first one did (status, record, message) and leaves the
\* table as the first update left it.
C11_UpdateIdempotent ==
  [][(last'.op = "update" /\ last'.inj = NoInj /\ HasId(store, last'.id))
       => UpdateH(variant, store', last'.id, Destructure(last'.body), NoInj)
            = Res(store', last'.status, last'.rec, last'.msg, last'.calls, <<>>)]_vars

\* An update with the title alone has changed the title of a row.
C11_Witness ==
  /\ last.op = "update"
  /\ last.status = 200
  /\ Destructure(last.body) = Body(StrB, Undef, Undef, Undef, Undef)
  /\ HasId(store, last.id)
  /\ RowOf(store, last.id).title = StrB
  /\ RowOf(store, last.id).description = StrA

\* C12: an update, whatever its path id and its body, also a body with an
\* id field of its own, leaves the ids of the stored rows as they were; the
\* record it answers 200 with carries the path id, and no row with another id
\* has changed.
C12_IdImmutable ==
  [][LET r == last'
     IN r.op = "update"
          => /\ {x.id : x \in store'} = {x.id : x \in store}
             /\ r.status = 200
                  => /\ r.rec.id = r.id
                     /\ \A x \in store' \ store : x.id = r.rec.id]_vars

\* An update whose body names the id of another row has changed its row.
C12_Witness ==
  /\ last.op = "update"
  /\ last.status = 200
  /\ last.body.id \in Ids
  /\ last.body.id # last.id
  /\ HasId(store, last.body.id)
  /\ RowOf(store, last.id).title = StrB

\* C13: a request whose storage call has failed is answered 500 with the
\* generic message, whatever the message of the storage error.
C13_NoLeak ==
  (last.inj # NoInj /\ last.calls >= last.inj.at)
    => last.status = 500 /\ last.msg = MsgInternal

\* The place of an id in the creation order.
BornAt(id) == CHOOSE k \in 1..Len(born) : born[k] = id

\* C14: the list of index.js holds the stored recipes newest first: a recipe
\* created after another one comes before it.
C14_NewestFirst ==
  (variant = "orm" /\ last.op = "list" /\ last.status = 200)
    => /\ Len(last.list) = Cardinality(store)
       /\ \A i, j \in 1..Len(last.list) :
            i < j => BornAt(last.list[i].id) > BornAt(last.list[j].id)

\* C15: a request whose storage call has failed is answered 500, has issued
\* no storage call after the failed one, and leaves the table as it was, also
\* when it is the write of an update whose lookup has succeeded.
C15_SingleShot ==
  [][LET r == last'
     IN (r.inj # NoInj /\ r.calls >= r.inj.at)
          => r.status = 500 /\ r.calls = r.inj.at /\ store' = store]_vars

\* The write of an update has failed after its lookup found the row.
C15_Witness ==
  /\ last.op = "update"
  /\ last.inj.at = 2
  /\ last.calls = 2
  /\ last.status = 500
  /\ HasId(store, last.id)

\* C16: a successful create whose image_url is absent or empty stores and
\* answers the empty string as image_url; the image_url of every stored
\* recipe is a string after every request.
C16_ImageUrlDefault ==
  [][/\ \A x \in store' : IsString(x.image_url)
     /\ LET r == last'
        IN (/\ r.op = "create"
            /\ r.status = 201
            /\ r.body.image_url \in {Undef, Empty})
             => /\ r.rec.image_url = Empty
                /\ HasId(store', r.rec.id)
                /\ RowOf(store', r.rec.id).image_url = Empty]_vars

\* A recipe created with an empty image_url is stored.
C16_Witness ==
  /\ last.op = "create"
  /\ last.status = 201
  /\ last.body.image_url = Empty
  /\ HasId(store, last.rec.id)
  /\ RowOf(store, last.rec.id).image_url = Empty

\* C17: a list and a getById leave the table as it was; a list whose storage
\* call does not fail answers 200 with every stored recipe exactly once and
\* nothing else.
C17_ReadsPure ==
  [][LET r == last'
     IN /\ r.op \in {"list", "get"} => store' = store
        /\ (r.op = "list" /\ r.inj = NoInj)
             => /\ r.status = 200
                /\ Len(r.list) = Cardinality(store)
                /\ {r.list[i] : i \in 1..Len(r.list)} = store]_vars

\* A list has answered with two recipes.
C17_Witness ==
  /\ last.op = "list"
  /\ last.status = 200
  /\ Len(last.list) = 2
  /\ Cardinality(store) = 2

\* C18: in index.js no field of a stored recipe has whitespace at its start
\* or its end, after any creates and updates.
C18_Trimmed ==
  variant = "orm"
    => \A x \in store : \A f \in Fields : IsString(x[f]) /\ Trim(x[f]) = x[f]

\* C19: an update that runs at the same time as another one on the same row
\* and answers 200 writes the fields it supplies and leaves every field it
\* does not supply as the table holds it at the time of the write, never as
\* it read it before; so after two updates of disjoint fields the row has the
\* new values of both.
C19_NoLostUpdate ==
  [][\A s \in Writers :
       (/\ inflight[s].pc = "write"
        /\ inflight'[s].pc = "idle"
        /\ last'.status = 200
        /\ HasId(store, inflight[s].id))
         => /\ HasId(store', inflight[s].id)
            /\ \A f \in Fields :
                 RowOf(store', inflight[s].id)[f] =
                   IF inflight[s].body[f] = Undef
                   THEN RowOf(store, inflight[s].id)[f]
                   ELSE inflight[s].body[f]]_vars

\* C20: a create, an update and a delete, answered with success or not, leave
\* every row with another id as it was: a create adds one row when it answers
\* 201 and none otherwise, an update changes at most the row with its path
\* id, a delete removes at most that row.
C20_RowIndependence ==
  [][LET r == last'
     IN /\ r.op = "create"
             => /\ store \subseteq store'
                /\ IF r.status = 201
                   THEN store' \ store = {RowOf(store', r.rec.id)}
                   ELSE store' = store
        /\ r.op = "update"
             => /\ \A x \in store : x.id # r.id => x \in store'
                /\ \A x \in store' : x.id # r.id => x \in store
        /\ r.op = "delete"
             => /\ store' \subseteq store
                /\ \A x \in store \ store' : x.id = r.id]_vars

\* An update has changed one of two rows and the other one is as created.
C20_Witness ==
  /\ last.op = "update"
  /\ last.status = 200
  /\ Cardinality(store) = 2
  /\ RowOf(store, last.id).title = StrB
  /\ \E x \in store : x.id # last.id /\ x.title = StrA

====
